---- MODULE Spec2Model ----
(***************************************************************************)
(* A model of adt/mypy_plugin.py: the mypy plugin that gives the classes   *)
(* decorated with @adt their per-case constructors, accessors and `match`. *)
(*                                                                         *)
(* Names are sequences of tokens (a token is one letter, or a whole        *)
(* lower-case word such as "match"), so that str.lower() and the string    *)
(* concatenations of the code are computed and not assumed.                *)
(***************************************************************************)
EXTENDS Integers, Sequences, FiniteSets, TLC

VARIABLES
    plugin,     \* what plugin(version) returned to the host: "unloaded" before the call
    pending,    \* the hook the host got from get_class_decorator_hook and has yet to call
    names,      \* names[c]: the member table of class c (TypeInfo.names)
    body,       \* body[c]: the statements of the class body (ClassDef.defs.body)
    nodes,      \* nodes[c]: how many FuncDef nodes exist for c (the next one's identity)
    passes,     \* passes[c]: how many times _transform_class has run on c
    names0,     \* the member tables as they were before any pass
    lastCall    \* the last call into the plugin, its input and what it returned

vars == <<plugin, pending, names, body, nodes, passes, names0, lastCall>>

-----------------------------------------------------------------------------
(* Bounds of the model *)

\* declared variants, over all the classes together
MaxVariants == 2
\* runs of _transform_class, over all the classes together
MaxPasses == 3
\* hand-written methods, over all the classes together
MaxUser == 1
\* FuncDef nodes of one class, where single installs are the steps
MaxNodes == 3

-----------------------------------------------------------------------------
(* Strings *)

Range(s) == {s[i] : i \in 1..Len(s)}

\* str.lower() on one ASCII letter
LowerChar(ch) ==
    CASE ch = "A" -> "a"
      [] ch = "B" -> "b"
      [] ch = "M" -> "m"
      [] ch = "R" -> "r"
      [] OTHER -> ch

\* str.lower()
Lower(name) == [i \in 1..Len(name) |-> LowerChar(name[i])]

Digits == <<"0", "1", "2", "3", "4", "5", "6", "7", "8", "9">>

\* str(i) for a natural number i
RECURSIVE Str(_)
Str(i) == IF i < 10 THEN <<Digits[i + 1]>> ELSE Str(i \div 10) \o <<Digits[(i % 10) + 1]>>

\* a + '.' + b for dotted names
Dot(a, b) == a \o <<".">> \o b

MATCH == <<"match">>
MATCH_RESULT == <<"_", "M", "atch", "R", "esult">>

-----------------------------------------------------------------------------
(* decimal.Decimal, for the version strings the host passes *)

DigitChars == Range(Digits)

\* the value of one digit character
DigitVal(ch) == CHOOSE d \in 0..9 : Digits[d + 1] = ch

RECURSIVE Pow10(_)
Pow10(n) == IF n = 0 THEN 1 ELSE 10 * Pow10(n - 1)

\* int() of a sequence of digit characters; the empty sequence counts 0
RECURSIVE DigitsValue(_)
DigitsValue(ds) ==
    IF ds = << >> THEN 0
    ELSE 10 * DigitsValue(SubSeq(ds, 1, Len(ds) - 1)) + DigitVal(ds[Len(ds)])

DotPositions(s) == {i \in 1..Len(s) : s[i] = "."}

\* Decimal(s) accepts digits with at most one point, and at least one digit
IsDecimal(s) ==
    /\ Range(s) \subseteq DigitChars \cup {"."}
    /\ Cardinality(DotPositions(s)) <= 1
    /\ \E i \in 1..Len(s) : s[i] \in DigitChars

\* Decimal(s) as a coefficient and a number of fraction digits: coef / 10^scale
Decimal(s) ==
    LET dots == DotPositions(s)
        p == IF dots = {} THEN Len(s) + 1 ELSE CHOOSE i \in dots : TRUE
        whole == SubSeq(s, 1, p - 1)
        frac == SubSeq(s, p + 1, Len(s))
    IN  [coef |-> DigitsValue(whole \o frac), scale |-> Len(frac)]

\* a comparison of the coefficients that forgets the scales
DecimalGe_IgnoringScale(x, y) == x.coef >= y.coef

\* Decimal.__ge__
DecimalGe(x, y) == x.coef * Pow10(y.scale) >= y.coef * Pow10(x.scale)

\* the floor of line 188
MinVersion == <<"0", ".", "7", "1", "1">>

\* plugin(version): the class, or the exception the call ends with
PluginEntry(version) ==
    IF ~IsDecimal(version) THEN "InvalidOperation"
    ELSE IF DecimalGe(Decimal(version), Decimal(MinVersion)) THEN "ADTPlugin"
    ELSE "AssertionError"

-----------------------------------------------------------------------------
(* The hook lookup *)

_ADT_DECORATOR == "adt.decorator.adt"

\* a lookup that compares without regard to case
get_class_decorator_hook_IgnoringCase(fullname) ==
    IF fullname \notin {"adt.decorator.adt", "adt.decorator.ADT"} THEN "None"
    ELSE "_transform_class"

\* get_class_decorator_hook(fullname): the bound method, or None
get_class_decorator_hook(fullname) ==
    IF fullname # _ADT_DECORATOR THEN "None" ELSE "_transform_class"

-----------------------------------------------------------------------------
(* mypy types, as far as the plugin builds them *)

ARG_POS == "ARG_POS"
ARG_NAMED == "ARG_NAMED"

\* a Var with no declared type has type None
NoType == [t |-> "None"]
IntType == [t |-> "int"]
StrType == [t |-> "str"]
AnyType(why) == [t |-> "Any", of |-> why]
\* fill_typevars(info) of a class without type parameters
Instance(fullname) == [t |-> "Instance", cls |-> fullname]
TypeVarDef(name, fullname) == [name |-> name, fullname |-> fullname, id |-> -1]
TypeVarType(def) == [t |-> "TypeVar", def |-> def]
CallableType(arg_types, arg_kinds, arg_names, ret_type, variables) ==
    [t |-> "Callable", arg_types |-> arg_types, arg_kinds |-> arg_kinds,
     arg_names |-> arg_names, ret_type |-> ret_type, variables |-> variables]

\* Python truth of an Optional[Type]
Truthy(type) == type # NoType

\* Argument(variable, type_annotation, initializer=None, kind)
Argument(name, type, kind) == [name |-> name, type |-> type, kind |-> kind]

-----------------------------------------------------------------------------
(* The member table and the class body *)

\* SymbolTableNode(MDEF, node, plugin_generated); isinstance tests read `kind`
SymbolTableNode(kind, node, plugin_generated) ==
    [kind |-> kind, node |-> node, plugin_generated |-> plugin_generated]

\* the Var of a class attribute
Var(name, type) == [name |-> name, type |-> type]

\* a FuncDef; `id` is the identity of the object, `type` its signature
FuncDef(id, name, is_class, type, fullname) ==
    [id |-> id, name |-> name, is_class |-> is_class, type |-> type, fullname |-> fullname]

AssignmentStmt(name) == [stmt |-> "AssignmentStmt", lvalue |-> name]
FuncDefStmt(func) == [stmt |-> "FuncDef", func |-> func]

\* dict assignment d[key] = value
Put(table, key, value) == (key :> value) @@ table

\* list.remove(x): the list without the first element equal to x
Remove(seq, x) ==
    IF \E i \in 1..Len(seq) : seq[i] = x
    THEN LET k == CHOOSE i \in 1..Len(seq) : seq[i] = x /\ \A j \in 1..(i - 1) : seq[j] # x
         IN  SubSeq(seq, 1, k - 1) \o SubSeq(seq, k + 1, Len(seq))
    ELSE seq

\* mypy.util.get_unique_redefinition_name(name, existing), called at line 83:
\* name-redefinition, then name-redefinition2, name-redefinition3, ...
RECURSIVE FirstFree(_, _, _)
FirstFree(r_name, existing, i) ==
    IF r_name \o Str(i) \in existing THEN FirstFree(r_name, existing, i + 1) ELSE r_name \o Str(i)

get_unique_redefinition_name(name, existing) ==
    LET r_name == name \o <<"-redefinition">>
    IN  IF r_name \notin existing THEN r_name ELSE FirstFree(r_name, existing, 2)

\* lines 36-41: a generated FuncDef already under `name` leaves the class body
RemoveGenerated(cs, name) ==
    IF /\ name \in DOMAIN cs.names
       /\ cs.names[name].plugin_generated
       /\ cs.names[name].kind = "FuncDef"
    THEN [cs EXCEPT !.body = Remove(cs.body, FuncDefStmt(cs.names[name].node))]
    ELSE cs

\* lines 43-56: cls or self goes first
FirstArgument(fullname, is_classmethod) ==
    IF is_classmethod
    THEN Argument(<<"cls">>, AnyType("implementation_artifact"), ARG_POS)
    ELSE Argument(<<"self">>, Instance(fullname), ARG_POS)

\* keeping under name-redefinition without looking for a free name
KeepExisting_FixedName(table, name) ==
    IF name \in DOMAIN table
    THEN Put(table, name \o <<"-redefinition">>, table[name])
    ELSE table

\* lines 79-84: whatever is under `name` is kept under a fresh name
KeepExisting(table, name) ==
    IF name \in DOMAIN table
    THEN Put(table, get_unique_redefinition_name(name, DOMAIN table), table[name])
    ELSE table

\* _add_method(ctx, name, args, return_type, tvar_def, is_classmethod) on the
\* class state cs = [names, body, nodes, ok]; `variables` is [tvar_def] or []
_add_method(cs, fullname, name, args, return_type, variables, is_classmethod) ==
    LET cs1 == RemoveGenerated(cs, name)
        all == <<FirstArgument(fullname, is_classmethod)>> \o args
        signature == CallableType([i \in 1..Len(all) |-> all[i].type],
                                  [i \in 1..Len(all) |-> all[i].kind],
                                  [i \in 1..Len(all) |-> all[i].name],
                                  return_type, variables)
        func == FuncDef(cs.nodes + 1, name, is_classmethod, signature, Dot(fullname, name))
    IN  IF \E i \in 1..Len(all) : ~Truthy(all[i].type)
        THEN [cs1 EXCEPT !.ok = FALSE]
        ELSE [names |-> Put(KeepExisting(cs1.names, name), name,
                            SymbolTableNode("FuncDef", func, TRUE)),
              body |-> Append(cs1.body, FuncDefStmt(func)),
              nodes |-> cs.nodes + 1,
              ok |-> TRUE]

\* the Vars collected back to front
RECURSIVE _get_class_vars_Reversed(_, _)
_get_class_vars_Reversed(table, stmts) ==
    IF stmts = << >> THEN << >>
    ELSE LET s == Head(stmts)
             rest == _get_class_vars_Reversed(table, Tail(stmts))
         IN  IF s.stmt = "AssignmentStmt" /\ table[s.lvalue].kind = "Var"
             THEN rest \o <<table[s.lvalue].node>>
             ELSE rest

\* _get_class_vars(cls): the Vars the assignments of the body name, in body order
RECURSIVE _get_class_vars(_, _)
_get_class_vars(table, stmts) ==
    IF stmts = << >> THEN << >>
    ELSE LET s == Head(stmts)
             rest == _get_class_vars(table, Tail(stmts))
         IN  IF s.stmt = "AssignmentStmt" /\ table[s.lvalue].kind = "Var"
             THEN <<table[s.lvalue].node>> \o rest
             ELSE rest

\* TypeVarExpr(name, fullname, [], object)
TypeVarExpr(name, fullname) == [name |-> name, fullname |-> fullname]

\* a qualified name built from the class's short name
TypeVarQualifiedName_ShortName(fullname, tVarName) == Dot(<<fullname[Len(fullname)]>>, tVarName)

\* line 102: the qualified name of the type variable
TypeVarQualifiedName(fullname, tVarName) == Dot(fullname, tVarName)

\* _add_typevar(context, tVarName): the table gets the TypeVarExpr under tVarName,
\* `ret` is the TypeVarDef returned
_add_typevar(cs, fullname, tVarName) ==
    LET tVarQualifiedName == TypeVarQualifiedName(fullname, tVarName)
    IN  [cs |-> [cs EXCEPT !.names = Put(cs.names, tVarName,
                    SymbolTableNode("TypeVarExpr", TypeVarExpr(tVarName, tVarQualifiedName), FALSE))],
         ret |-> TypeVarDef(tVarName, tVarQualifiedName)]

\* _callable_type_for_adt_case(context, case, resultType)
_callable_type_for_adt_case(case, resultType) ==
    CallableType(<<IF Truthy(case.type) THEN case.type ELSE AnyType("unannotated")>>,
                 <<ARG_POS>>, << << >> >>, TypeVarType(resultType), <<resultType>>)

\* lines 133-152: the constructor and the accessor of each case, in order;
\* an untyped case fails the assertion of line 134 and ends the loop
RECURSIVE AddCases(_, _, _)
AddCases(cs, fullname, cases) ==
    IF cases = << >> \/ ~cs.ok THEN cs
    ELSE LET case == Head(cases)
         IN  IF ~Truthy(case.type) THEN [cs EXCEPT !.ok = FALSE]
             ELSE LET c1 == _add_method(cs, fullname, case.name,
                                        <<Argument(case.name, case.type, ARG_POS)>>,
                                        Instance(fullname), << >>, TRUE)
                      c2 == IF c1.ok
                            THEN _add_method(c1, fullname, Lower(case.name), << >>,
                                             case.type, << >>, FALSE)
                            ELSE c1
                  IN  AddCases(c2, fullname, Tail(cases))

\* lines 164-170: one keyword argument per case
MatchArgs(cases, matchResultType) ==
    [i \in 1..Len(cases) |->
        Argument(Lower(cases[i].name),
                 _callable_type_for_adt_case(cases[i], matchResultType), ARG_NAMED)]

\* _transform_class(context) on the class state cs
_transform_class(cs, fullname) ==
    LET cases == _get_class_vars(cs.names, cs.body)
        c1 == AddCases(cs, fullname, cases)
        tv == _add_typevar(c1, fullname, MATCH_RESULT)
        matchResultType == tv.ret
    IN  IF ~c1.ok THEN c1
        ELSE _add_method(tv.cs, fullname, MATCH, MatchArgs(cases, matchResultType),
                         TypeVarType(matchResultType), <<matchResultType>>, FALSE)

-----------------------------------------------------------------------------
(* The classes the host analyses *)

K1 == <<"m", ".", "K">>
K2 == <<"n", ".", "K">>
Classes == {K1, K2}

VariantNames == {<<"a">>, <<"A", "b">>, <<"A", "B">>, MATCH_RESULT}
\* the annotation a variant carries when it is annotated
AnnotationOf(name) == IF name \in {<<"A", "b">>, MATCH_RESULT} THEN IntType ELSE StrType
UserNames == {<<"a", "b">>, MATCH}
Versions == {<<"0", ".", "7", "0", "0">>, <<"0", ".", "7", "1", "1">>, <<"0", ".", "8">>,
             <<"0", ".", "1", "0", "0", "0">>, <<"0", ".", "7", "1", "0", "9">>,
             <<"1">>, <<"0", ".", "7", "2", "0", "+", "d", "e", "v">>}
DecoratorNames == {_ADT_DECORATOR, "adt.decorator.ADT", "adt.decorator"}

\* a declaration `name: annotation`, or one without annotation
VarUniverse == UNION {{Var(n, AnnotationOf(n)), Var(n, NoType)} : n \in VariantNames}

\* the variant lists of exactly n declarations, with distinct names
VariantLists(n) ==
    {l \in [1..n -> VarUniverse] : \A i, j \in 1..n : i # j => l[i].name # l[j].name}

VariantListsUpTo(n) == UNION {VariantLists(k) : k \in 0..n}

\* a hand-written method `def name(self): ...`
UserFuncDef(id, fullname, name) ==
    FuncDef(id, name, FALSE,
            CallableType(<<AnyType("unannotated")>>, <<ARG_POS>>, <<<<"self">>>>,
                         AnyType("unannotated"), << >>),
            Dot(fullname, name))

\* the hand-written methods of a class, in the order of the class body
UserOrder(user) ==
    (IF <<"a", "b">> \in user THEN << <<"a", "b">> >> ELSE << >>)
        \o (IF MATCH \in user THEN <<MATCH>> ELSE << >>)

\* the class body the parser hands to the semantic analyser
InitBody(fullname, decl, user) ==
    [i \in 1..Len(decl) |-> AssignmentStmt(decl[i].name)]
        \o [i \in 1..Len(UserOrder(user)) |->
                FuncDefStmt(UserFuncDef(i, fullname, UserOrder(user)[i]))]

\* the member table the semantic analyser built from that body
InitNames(fullname, decl, user) ==
    LET order == UserOrder(user)
        declared == {decl[i].name : i \in 1..Len(decl)}
    IN  [k \in declared \cup user |->
            IF k \in user
            THEN LET i == CHOOSE j \in 1..Len(order) : order[j] = k
                 IN  SymbolTableNode("FuncDef", UserFuncDef(i, fullname, k), FALSE)
            ELSE LET i == CHOOSE j \in 1..Len(decl) : decl[j].name = k
                 IN  SymbolTableNode("Var", decl[i], FALSE)]

NoPending == [cls |-> << >>, hook |-> "None"]

TotalPasses == passes[K1] + passes[K2]

\* an AssertionError out of the hook ends the host's run
Crashed == lastCall.op = "_transform_class" /\ lastCall.ret = "AssertionError"

Init ==
    \E n \in 0..MaxVariants :
    \E d1 \in VariantLists(n), d2 \in VariantListsUpTo(MaxVariants - n) :
    \E u1 \in SUBSET UserNames, u2 \in SUBSET UserNames :
        /\ Cardinality(u1) + Cardinality(u2) <= MaxUser
        /\ u1 \cap {d1[i].name : i \in 1..Len(d1)} = {}
        /\ u2 \cap {d2[i].name : i \in 1..Len(d2)} = {}
        /\ names = (K1 :> InitNames(K1, d1, u1)) @@ (K2 :> InitNames(K2, d2, u2))
        /\ body = (K1 :> InitBody(K1, d1, u1)) @@ (K2 :> InitBody(K2, d2, u2))
        /\ nodes = (K1 :> Cardinality(u1)) @@ (K2 :> Cardinality(u2))
        /\ names0 = names
        /\ passes = [c \in Classes |-> 0]
        /\ plugin = "unloaded"
        /\ pending = NoPending
        /\ lastCall = [op |-> "none", ret |-> "None"]

\* the host loads the plugin: plugin(version)
Plugin(version) ==
    /\ plugin = "unloaded"
    /\ plugin' = PluginEntry(version)
    /\ lastCall' = [op |-> "plugin", version |-> version, ret |-> PluginEntry(version)]
    /\ UNCHANGED <<pending, names, body, nodes, passes, names0>>

\* the host meets a decorator on class c and asks the plugin for its hook
GetClassDecoratorHook(c, fullname) ==
    /\ plugin = "ADTPlugin"
    /\ pending = NoPending
    /\ ~Crashed
    /\ TotalPasses < MaxPasses
    /\ LET hook == get_class_decorator_hook(fullname)
       IN  /\ pending' = IF hook = "None" THEN NoPending ELSE [cls |-> c, hook |-> hook]
           /\ lastCall' = [op |-> "get_class_decorator_hook", fullname |-> fullname,
                           ret |-> hook]
    /\ UNCHANGED <<plugin, names, body, nodes, passes, names0>>

\* the host calls the hook it was given: one analysis pass over the class
TransformClass ==
    /\ pending.hook = "_transform_class"
    /\ LET c == pending.cls
           r == _transform_class([names |-> names[c], body |-> body[c],
                                  nodes |-> nodes[c], ok |-> TRUE], c)
       IN  /\ names' = [names EXCEPT ![c] = r.names]
           /\ body' = [body EXCEPT ![c] = r.body]
           /\ nodes' = [nodes EXCEPT ![c] = r.nodes]
           /\ passes' = [passes EXCEPT ![c] = @ + 1]
           /\ lastCall' = [op |-> "_transform_class", cls |-> c,
                           cases |-> _get_class_vars(names[c], body[c]),
                           ret |-> IF r.ok THEN "ok" ELSE "AssertionError"]
    /\ pending' = NoPending
    /\ UNCHANGED <<plugin, names0>>

Next ==
    \/ \E version \in Versions : Plugin(version)
    \/ \E c \in Classes, fullname \in DecoratorNames : GetClassDecoratorHook(c, fullname)
    \/ TransformClass

Spec == Init /\ [][Next]_vars

-----------------------------------------------------------------------------
(* Single installs: _add_method as a step of its own, on class K1 *)

\* the calls _transform_class makes: the constructor and the accessor of a typed
\* variant (lines 137-152), and `match` (lines 172-176)
Installs ==
    {[name |-> v.name, args |-> <<Argument(v.name, v.type, ARG_POS)>>,
      return_type |-> Instance(K1), variables |-> << >>, is_classmethod |-> TRUE] :
        v \in {Var(<<"A">>, IntType), Var(<<"a">>, StrType)}}
    \cup {[name |-> Lower(v.name), args |-> << >>,
           return_type |-> v.type, variables |-> << >>, is_classmethod |-> FALSE] :
        v \in {Var(<<"A">>, IntType)}}
    \cup {[name |-> MATCH, args |-> << >>,
           return_type |-> TypeVarType(TypeVarDef(MATCH_RESULT, TypeVarQualifiedName(K1, MATCH_RESULT))),
           variables |-> <<TypeVarDef(MATCH_RESULT, TypeVarQualifiedName(K1, MATCH_RESULT))>>,
           is_classmethod |-> FALSE]}

\* the class K1 as the parser left it, the other class empty
InitInstall == Init /\ DOMAIN names[K2] = {}

\* one call of _add_method on class K1
AddMethod(m) ==
    /\ nodes[K1] < MaxNodes
    /\ LET r == _add_method([names |-> names[K1], body |-> body[K1],
                             nodes |-> nodes[K1], ok |-> TRUE],
                            K1, m.name, m.args, m.return_type, m.variables,
                            m.is_classmethod)
       IN  /\ names' = [names EXCEPT ![K1] = r.names]
           /\ body' = [body EXCEPT ![K1] = r.body]
           /\ nodes' = [nodes EXCEPT ![K1] = r.nodes]
           /\ lastCall' = [op |-> "_add_method", cls |-> K1, name |-> m.name,
                           ret |-> IF r.ok THEN "None" ELSE "AssertionError"]
    /\ UNCHANGED <<plugin, pending, passes, names0>>

NextInstall == \E m \in Installs : AddMethod(m)

SpecInstall == InitInstall /\ [][NextInstall]_vars

-----------------------------------------------------------------------------
(* What the claims speak of *)

\* the variants the class body declares: what the first pass extracts
Declared(c) == _get_class_vars(names0[c], body[c])

\* the last call was a pass over class c
PassedOver(c) == lastCall.op = "_transform_class" /\ lastCall.cls = c

\* c has been transformed and no pass over it has failed
Transformed(c) == passes[c] >= 1 /\ ~(Crashed /\ lastCall.cls = c)

\* key set and tagging of a member table; the identity of the nodes left out
Shape(table) ==
    [k \in DOMAIN table |-> [kind |-> table[k].kind,
                             plugin_generated |-> table[k].plugin_generated]]

\* the names the plugin generates for a variant list
GeneratedNames(cases) ==
    {cases[i].name : i \in 1..Len(cases)} \cup {Lower(cases[i].name) : i \in 1..Len(cases)}
        \cup {MATCH}

\* a generated method under `name` with this receiver, these parameters and result
IsGenerated(table, name, is_class, arg_names, arg_kinds, arg_types, ret_type) ==
    /\ name \in DOMAIN table
    /\ table[name].plugin_generated
    /\ table[name].kind = "FuncDef"
    /\ table[name].node.name = name
    /\ table[name].node.is_class = is_class
    /\ Tail(table[name].node.type.arg_names) = arg_names
    /\ Tail(table[name].node.type.arg_kinds) = arg_kinds
    /\ Tail(table[name].node.type.arg_types) = arg_types
    /\ table[name].node.type.ret_type = ret_type

-----------------------------------------------------------------------------
(* The claims *)

\* C1: a second or later pass over a class leaves its member table as the pass
\* before left it: the same keys, each slot tagged as before.
C1_RepeatedPassIdentical ==
    [][\A c \in Classes :
          (passes[c] >= 1 /\ passes'[c] = passes[c] + 1)
              => Shape(names'[c]) = Shape(names[c])]_vars

\* C2: a pass that fails on an untyped variant leaves the member table and the
\* class body exactly as they were before the attempt.
C2_FailedPassChangesNothing ==
    [][(passes' # passes /\ lastCall'.ret = "AssertionError")
          => (names' = names /\ body' = body)]_vars

\* C3: a hand-written member (or the variant's own Var) that sat under a generated
\* name N before the first pass is, after every successful pass, still mapped by the
\* key N-redefinition, while N itself maps to a generated method.
C3_UserMembersPreserved ==
    \A c \in Classes :
        Transformed(c) =>
            \A N \in DOMAIN names0[c] \cap GeneratedNames(Declared(c)) :
                /\ N \in DOMAIN names[c]
                /\ names[c][N].plugin_generated
                /\ names[c][N].kind = "FuncDef"
                /\ N \o <<"-redefinition">> \in DOMAIN names[c]
                /\ names[c][N \o <<"-redefinition">>] = names0[c][N]

\* C3 witness: a hand-written method has been through two passes over its class,
\* and the generated method took its name.
C3_Witness ==
    \E c \in Classes, N \in UserNames :
        /\ passes[c] >= 2
        /\ Transformed(c)
        /\ N \in DOMAIN names0[c]
        /\ names0[c][N].kind = "FuncDef"
        /\ names[c][N].plugin_generated
        /\ names[c][N \o <<"-redefinition">>] = names0[c][N]

\* C4: after a successful transformation every variant v has, under v.name, a
\* generated class-level method taking one positional v.declaredType and returning
\* the enclosing type, and under lowercase(v.name) a generated instance method
\* without parameters returning v.declaredType. Stated of the first pass, where the
\* variants are the declared ones.
C4_ConstructorsAndAccessors ==
    \A c \in Classes :
        (passes[c] = 1 /\ Transformed(c)) =>
            \A i \in 1..Len(Declared(c)) :
                LET v == Declared(c)[i]
                IN  /\ IsGenerated(names[c], v.name, TRUE, <<v.name>>, <<ARG_POS>>,
                                   <<v.type>>, Instance(c))
                    /\ IsGenerated(names[c], Lower(v.name), FALSE, << >>, << >>, << >>,
                                   v.type)

\* the parameters `match` is to have for a variant list: one handler per variant
MatchHandlers(cases, c) ==
    [i \in 1..Len(cases) |->
        [t |-> "Callable", arg_types |-> <<cases[i].type>>, arg_kinds |-> <<ARG_POS>>,
         arg_names |-> << << >> >>,
         ret_type |-> names[c][MATCH].node.type.ret_type,
         variables |-> names[c][MATCH].node.type.variables]]

\* the shape of `match` for a variant list
MatchIsFor(cases, c) ==
    /\ IsGenerated(names[c], MATCH, FALSE,
                   [i \in 1..Len(cases) |-> Lower(cases[i].name)],
                   [i \in 1..Len(cases) |-> ARG_NAMED],
                   MatchHandlers(cases, c),
                   names[c][MATCH].node.type.ret_type)
    /\ names[c][MATCH].node.type.ret_type.t = "TypeVar"
    /\ names[c][MATCH].node.type.variables = <<names[c][MATCH].node.type.ret_type.def>>

\* C5: after a successful transformation `match` has, after self, one keyword-required
\* parameter per declared variant, named lowercase(v.name), in declaration order,
\* typed v.declaredType -> R, and returns that R.
C5_MatchSignature ==
    \A c \in Classes : Transformed(c) => MatchIsFor(Declared(c), c)

\* the signature of C5 on the first pass alone, where it holds
C5_MatchSignatureFirstPass ==
    \A c \in Classes : (passes[c] = 1 /\ Transformed(c)) => MatchIsFor(Declared(c), c)

\* C6: the variant list a second or later pass extracts is the list the first pass
\* extracted, and the pass installs `match` with one handler per declared variant.
C6_VariantsRederived ==
    \A c \in Classes :
        (PassedOver(c) /\ passes[c] >= 2) => lastCall.cases = Declared(c)

\* C7: a pass over variants of which two have the same lowercase name fails.
C7_AccessorCollisionFails ==
    (/\ lastCall.op = "_transform_class"
     /\ \E i, j \in 1..Len(lastCall.cases) :
            i # j /\ Lower(lastCall.cases[i].name) = Lower(lastCall.cases[j].name))
        => lastCall.ret = "AssertionError"

\* what each version string of the model reads as, in ten-thousandths
TenThousandths(version) ==
    CASE version = <<"0", ".", "7", "0", "0">> -> 7000
      [] version = <<"0", ".", "7", "1", "1">> -> 7110
      [] version = <<"0", ".", "8">> -> 8000
      [] version = <<"0", ".", "1", "0", "0", "0">> -> 1000
      [] version = <<"0", ".", "7", "1", "0", "9">> -> 7109
      [] version = <<"1">> -> 10000

ReadsAsDecimal(version) == Range(version) \subseteq DigitChars \cup {"."}

\* C8: plugin(version) returns the plugin class exactly when the version, read as a
\* decimal number, is at least 0.711; below the floor it fails, and then no hook is
\* ever handed out and no class is ever transformed.
C8_VersionGate ==
    /\ (lastCall.op = "plugin" /\ ReadsAsDecimal(lastCall.version)) =>
            /\ (lastCall.ret = "ADTPlugin") <=> (TenThousandths(lastCall.version) >= 7110)
            /\ lastCall.ret # "ADTPlugin" => lastCall.ret = "AssertionError"
            /\ plugin = lastCall.ret
    /\ plugin # "ADTPlugin" =>
            /\ pending = NoPending
            /\ names = names0
            /\ \A c \in Classes : passes[c] = 0

\* C8 witness: "0.8" has been accepted; the same state shape is reached with
\* "0.1000" rejected.
C8_Witness ==
    /\ lastCall.op = "plugin"
    /\ lastCall.version = <<"0", ".", "8">>
    /\ plugin = "ADTPlugin"

\* C9: get_class_decorator_hook(fullname) returns the class transformation exactly
\* for 'adt.decorator.adt', nothing for any other name, and changes no state of
\* the plugin or of the classes.
C9_HookLookup ==
    [][lastCall'.op = "get_class_decorator_hook" =>
          /\ (lastCall'.ret = "_transform_class") <=> (lastCall'.fullname = "adt.decorator.adt")
          /\ lastCall'.ret \in {"_transform_class", "None"}
          /\ (pending'.hook = "_transform_class") <=> (lastCall'.ret = "_transform_class")
          /\ UNCHANGED <<plugin, names, body, nodes, passes>>]_vars

\* C9 witness: a lookup of a name that differs from the decorator's only in case
\* has returned nothing.
C9_Witness ==
    /\ lastCall.op = "get_class_decorator_hook"
    /\ lastCall.fullname = "adt.decorator.ADT"
    /\ lastCall.ret = "None"

\* the type variable of the `match` of class c
MatchTypeVar(c) == names[c][MATCH].node.type.variables[1]

\* C10: the type variables created for the `match` of two classes with different
\* qualified names carry the same short name '_MatchResult' and different qualified
\* names, in the signature of `match` and in the member table.
C10_TypeVarQualifiedUniqueness ==
    \A c, d \in Classes :
        (c # d /\ Transformed(c) /\ Transformed(d)) =>
            /\ MatchTypeVar(c).name = MATCH_RESULT
            /\ MatchTypeVar(d).name = MATCH_RESULT
            /\ MatchTypeVar(c).fullname # MatchTypeVar(d).fullname
            /\ names[c][MATCH].node.type.ret_type = TypeVarType(MatchTypeVar(c))
            /\ names[c][MATCH_RESULT].node.name = names[d][MATCH_RESULT].node.name
            /\ names[c][MATCH_RESULT].node.fullname # names[d][MATCH_RESULT].node.fullname
            /\ names[c][MATCH_RESULT].node.fullname = MatchTypeVar(c).fullname

\* C10 witness: both classes have been transformed.
C10_Witness ==
    /\ Transformed(K1)
    /\ Transformed(K2)
    /\ MatchTypeVar(K1).name = MatchTypeVar(K2).name

\* C11: a generated symbol replaced under its name is dropped: every symbol tagged
\* as generated sits under its own canonical name, and no '-redefinition' key maps
\* to a generated symbol.
C11_GeneratedOnlyUnderOwnName ==
    \A c \in Classes : \A k \in DOMAIN names[c] :
        names[c][k].plugin_generated => names[c][k].node.name = k

\* the rename key an install of N is to use on a table with these keys:
\* N-redefinition, or N-redefinition followed by the smallest free integer >= 2
RenameKey(N, keys) ==
    LET r == N \o <<"-redefinition">>
        free == {i \in 2..(Cardinality(keys) + 2) : r \o Str(i) \notin keys}
    IN  IF r \notin keys THEN r
        ELSE r \o Str(CHOOSE i \in free : \A j \in free : i <= j)

\* C12: one call of _add_method for name N changes at most two keys of the member
\* table: N, and one rename key that was not there before (N-redefinition, or
\* N-redefinition with the smallest free integer >= 2), which takes what N mapped
\* to; every other entry is as before and no existing entry is overwritten.
C12_InstallFrame ==
    [][(lastCall'.op = "_add_method" /\ nodes' # nodes) =>
          LET N == lastCall'.name
              old == names[K1]
              new == names'[K1]
          IN  /\ DOMAIN old \subseteq DOMAIN new
              /\ \A k \in DOMAIN old \ {N} : new[k] = old[k]
              /\ N \in DOMAIN new /\ new[N].plugin_generated
              /\ IF N \in DOMAIN old
                 THEN /\ RenameKey(N, DOMAIN old) \notin DOMAIN old
                      /\ DOMAIN new = DOMAIN old \cup {RenameKey(N, DOMAIN old)}
                      /\ new[RenameKey(N, DOMAIN old)] = old[N]
                 ELSE DOMAIN new = DOMAIN old \cup {N}
              /\ names'[K2] = names[K2]]_vars

\* C12 witness: an install of a name whose N-redefinition was taken has kept the
\* old symbol under N-redefinition2, next to the earlier rename.
C12_Witness ==
    /\ lastCall.op = "_add_method"
    /\ lastCall.name \o <<"-redefinition", "2">> \in DOMAIN names[K1]
    /\ lastCall.name \o <<"-redefinition", "3">> \notin DOMAIN names[K1]
    /\ names[K1][lastCall.name \o <<"-redefinition">>] # names[K1][lastCall.name \o <<"-redefinition", "2">>]

\* the variants in the order of their declarations in the class body
DeclaredInOrder(c) ==
    LET IsDeclaration(s) == s.stmt = "AssignmentStmt" /\ names0[c][s.lvalue].kind = "Var"
        decls == SelectSeq(body[c], IsDeclaration)
    IN  [i \in 1..Len(decls) |-> names0[c][decls[i].lvalue].node]

\* the statements the parser put in the class body
ParsedStatements(c) ==
    LET IsParsed(s) ==
            \/ s.stmt = "AssignmentStmt"
            \/ \E k \in DOMAIN names0[c] :
                    names0[c][k].kind = "FuncDef" /\ names0[c][k].node = s.func
    IN  SelectSeq(body[c], IsParsed)

\* distinct lowercase forms, none of the names lowercase already
PlainVariants(cases) ==
    /\ \A i, j \in 1..Len(cases) : i # j => Lower(cases[i].name) # Lower(cases[j].name)
    /\ \A i \in 1..Len(cases) : Lower(cases[i].name) # cases[i].name

\* constructor(v1), accessor(v1), ..., constructor(vn), accessor(vn), match
EmissionOrder(cases) ==
    [k \in 1..(2 * Len(cases) + 1) |->
        IF k = 2 * Len(cases) + 1 THEN [name |-> MATCH, is_class |-> FALSE]
        ELSE IF k % 2 = 1 THEN [name |-> cases[(k + 1) \div 2].name, is_class |-> TRUE]
        ELSE [name |-> Lower(cases[k \div 2].name), is_class |-> FALSE]]

GeneratedPositions(c) ==
    {i \in 1..Len(body[c]) :
        /\ body[c][i].stmt = "FuncDef"
        /\ \A k \in DOMAIN names0[c] : names0[c][k].node # body[c][i].func}

\* C14: the class body holds at most one generated function definition of each
\* name N, and that one is the node the member table maps N to.
C14_NoStaleGeneratedInBody ==
    \A c \in Classes : \A i \in GeneratedPositions(c) :
        LET f == body[c][i].func
        IN  /\ f.name \in DOMAIN names[c]
            /\ names[c][f.name].kind = "FuncDef"
            /\ names[c][f.name].plugin_generated
            /\ names[c][f.name].node = f
            /\ \A j \in GeneratedPositions(c) : body[c][j].func.name = f.name => j = i

====
